---- MODULE Spec2Model ----
(***************************************************************************)
(* A model of SARC.py: the in-memory archive tree (File, Folder,           *)
(* FileArchive), the SARC decoder (SARC_Archive._load), the encoder        *)
(* (SARC_Archive.save) and the filename hash (SARC_Archive.filenameHash).  *)
(*                                                                         *)
(* Strings are sequences of code points, byte strings are sequences of    *)
(* 0..255.  Python integers that can exceed 2^31-1 (32-bit fields read     *)
(* from a buffer, hashes) are kept as two base-65536 digits <<hi, lo>>,    *)
(* value hi * 65536 + lo; hi may leave 0..65535 where Python's unbounded   *)
(* integers would leave 32 bits.                                           *)
(***************************************************************************)
EXTENDS Integers, Sequences, FiniteSets, TLC

VARIABLES
    heap,            \* the objects constructed so far; an object's id is its index
    contents,        \* FileArchive.contents: set of object ids
    endianness,      \* FileArchive.endianness: ">" or "<"
    hashMultiplier,  \* SARC_Archive.hashMultiplier, <<hi, lo>>
    FileClassName,   \* the class attribute File.name
    buf,             \* the byte string handed to load / returned by save
    out,             \* the last operation, its arguments and its outcome
    hcall            \* the running call of filenameHash

vars == <<heap, contents, endianness, hashMultiplier, FileClassName,
          buf, out, hcall>>

----------------------------------------------------------------------------
(* Sequences                                                               *)

Min(a, b) == IF a < b THEN a ELSE b
Max(a, b) == IF a > b THEN a ELSE b

Reverse(s) == [i \in 1..Len(s) |-> s[Len(s) + 1 - i]]

Zeros(n) == [i \in 1..n |-> 0]

\* s[a:b] of Python for 0 <= a, 0 <= b (indices are clamped to len(s))
PySlice(s, a, b) ==
    LET lo == Min(a, Len(s))
        hi == Min(b, Len(s))
    IN  IF hi <= lo THEN <<>> ELSE SubSeq(s, lo + 1, hi)

RECURSIVE Concat(_)
Concat(ss) == IF ss = <<>> THEN <<>> ELSE Head(ss) \o Concat(Tail(ss))

\* the sequences over S of length at most n
SeqsUpTo(S, n) == UNION {[1..k -> S] : k \in 0..n}

----------------------------------------------------------------------------
(* Strings                                                                 *)

SLASH == 47
BACKSLASH == 92

sEmpty == <<>>
sA == <<97>>
sB == <<98>>
sC == <<99>>
sX == <<120>>
sABC == <<97, SLASH, 98, SLASH, 99>>
sBC == <<98, SLASH, 99>>
sAB == <<97, SLASH, 98>>
sAX == <<97, SLASH, 120>>
sAbsB == <<97, BACKSLASH, 98>>

\* str.replace(old, new) for single characters
Replace(s, old, new) == [i \in 1..Len(s) |-> IF s[i] = old THEN new ELSE s[i]]

\* str.split(sep): the segments between separators, at least one segment
RECURSIVE Split(_, _)
Split(s, sep) ==
    IF \A i \in 1..Len(s) : s[i] # sep
    THEN <<s>>
    ELSE LET k == CHOOSE i \in 1..Len(s) :
                      s[i] = sep /\ \A j \in 1..(i - 1) : s[j] # sep
         IN  <<SubSeq(s, 1, k - 1)>> \o Split(SubSeq(s, k + 1, Len(s)), sep)

\* sep.join(parts)
RECURSIVE Join(_, _)
Join(parts, sep) ==
    IF Len(parts) = 0 THEN <<>>
    ELSE IF Len(parts) = 1 THEN parts[1]
    ELSE parts[1] \o <<sep>> \o Join(Tail(parts), sep)

\* str.encode('utf-8'), for the one-byte code points the model uses
Utf8Encode(s) == s

\* bytes.decode('utf-8'): a byte below 0x80 is its own code point; the model
\* draws no valid multi-byte sequence, so any other byte is a decoding error
Utf8Valid(bs) == \A i \in 1..Len(bs) : bs[i] < 128
Utf8Decode(bs) == bs

----------------------------------------------------------------------------
(* Integers of 32 bits and more                                            *)

B16 == 256 * 256

BigOfNat(n) == <<n \div B16, n % B16>>

\* x * y for 0 <= x, y < 2^16, as <<hi, lo>>
Mul16(x, y) ==
    LET t   == (x \div 256) * y
        low == (t % 256) * 256 + (x % 256) * y
    IN  <<(t \div 256) + (low \div B16), low % B16>>

\* (a * b) & 0xFFFFFFFF
MulMask32(a, b) ==
    LET p     == Mul16(a[2], b[2])
        cross == Mul16(a[1] % B16, b[2])[2] + Mul16(a[2], b[1] % B16)[2]
    IN  <<(p[1] + cross) % B16, p[2]>>

\* (a + n) & 0xFFFFFFFF for a natural n
AddMask32(a, n) ==
    LET lo == a[2] + n
    IN  <<(a[1] + (lo \div B16)) % B16, lo % B16>>

BigAdd(a, b) ==
    LET lo == a[2] + b[2]
    IN  <<a[1] + b[1] + (lo \div B16), lo % B16>>

BigSub(a, b) ==
    LET lo == a[2] - b[2] + B16
    IN  <<a[1] - b[1] - 1 + (lo \div B16), lo % B16>>

BigLess(a, b) == a[1] < b[1] \/ (a[1] = b[1] /\ a[2] < b[2])
BigLeq(a, b) == a = b \/ BigLess(a, b)

\* a slice bound: an index at or beyond n acts as n
ClampIdx(a, n) == IF a[1] < 0 THEN 0 ELSE IF a[1] > 0 THEN n ELSE Min(a[2], n)

----------------------------------------------------------------------------
(* struct.pack / struct.unpack                                             *)

BE == ">"
LE == "<"
Endians == {BE, LE}

\* struct.pack(e + 'I', v), v = <<hi, lo>> below 2^32
PackI(e, v) ==
    LET msb == <<v[1] \div 256, v[1] % 256, v[2] \div 256, v[2] % 256>>
    IN  IF e = BE THEN msb ELSE Reverse(msb)

\* struct.pack(e + 'H', n)
PackH(e, n) ==
    LET msb == <<n \div 256, n % 256>>
    IN  IF e = BE THEN msb ELSE Reverse(msb)

\* struct.unpack(e + 'I', bs)[0] for len(bs) = 4
UnpackI(e, bs) ==
    LET msb == IF e = BE THEN bs ELSE Reverse(bs)
    IN  <<msb[1] * 256 + msb[2], msb[3] * 256 + msb[4]>>

\* struct.unpack(e + 'H', bs)[0] for len(bs) = 2
UnpackH(e, bs) ==
    LET msb == IF e = BE THEN bs ELSE Reverse(bs)
    IN  msb[1] * 256 + msb[2]

----------------------------------------------------------------------------
(* SARC_Archive.filenameHash                                               *)

\* the loop body: result = result * multiplier + ord(char);
\* result &= 0xFFFFFFFF
HashFold_Mask16(result, multiplier, char) ==
    <<0, AddMask32(MulMask32(result, multiplier), char)[2]>>

HashFold(result, multiplier, char) ==
    AddMask32(MulMask32(result, multiplier), char)

RECURSIVE HashLoop(_, _, _)
HashLoop(result, filename, multiplier) ==
    IF filename = <<>> THEN result
    ELSE HashLoop(HashFold(result, multiplier, Head(filename)),
                  Tail(filename), multiplier)

\* returns the packed bytes of the hash, not the integer
filenameHash(filename, e, multiplier) ==
    PackI(e, HashLoop(<<0, 0>>, filename, multiplier))

----------------------------------------------------------------------------
(* The objects: File, Folder, and the archive that holds them              *)

MaxObj == 4

\* File(name, data)
File(name, data) ==
    [kind |-> "File", name |-> name, data |-> data, contents |-> {}]

\* Folder(name)
Folder(name) ==
    [kind |-> "Folder", name |-> name, data |-> <<>>, contents |-> {}]

\* a value that is neither a File nor a Folder
Other == [kind |-> "Other", name |-> <<>>, data |-> <<>>, contents |-> {}]

isFile(h, id) == h[id].kind = "File"
isFolder(h, id) == h[id].kind = "Folder"

EmptyHeap == <<>>

\* constructing an object, and the id it gets
NewId(h) == Len(h) + 1
Alloc(h, obj) == Append(h, obj)

NoCall == [pc |-> "idle"]
NoOut == [op |-> "none", key |-> <<>>, val |-> 0, status |-> "ok",
          ret |-> 0, pre |-> <<>>]

\* SARC_Archive(endianness=e, hashMultiplier=m), no data
Constructed(e, m) ==
    /\ heap = EmptyHeap
    /\ contents = {}
    /\ endianness = e
    /\ hashMultiplier = m
    /\ FileClassName = <<>>   \* File has no class attribute "name" yet
    /\ buf = <<>>
    /\ out = NoOut

DefaultMultiplier == <<0, 101>>

----------------------------------------------------------------------------
(* FileArchive: the path accessors                                         *)

\* the archive itself as a place to look (self.contents); a folder is its id
ROOT == 0

ContentsOf(h, c, loc) == IF loc = ROOT THEN c ELSE h[loc].contents

\* set.add / set.remove on the contents of a place
SetAdd(h, c, loc, id) ==
    IF loc = ROOT
    THEN [h |-> h, c |-> c \cup {id}]
    ELSE [h |-> [h EXCEPT ![loc].contents = @ \cup {id}], c |-> c]

SetRemove(h, c, loc, id) ==
    IF loc = ROOT
    THEN [h |-> h, c |-> c \ {id}]
    ELSE [h |-> [h EXCEPT ![loc].contents = @ \ {id}], c |-> c]

\* key.replace('\\', '/').split('/')
FolderStructure(key) == Split(Replace(key, BACKSLASH, SLASH), SLASH)

Last(s) == s[Len(s)]
Front(s) == SubSeq(s, 1, Len(s) - 1)

\* the folders of a place with a given name; a set is iterated in no
\* particular order, so the loop may break on any of them
FoldersNamed(h, c, loc, folderName) ==
    {o \in ContentsOf(h, c, loc) : isFolder(h, o) /\ h[o].name = folderName}

EntriesNamed(h, c, loc, name) ==
    {o \in ContentsOf(h, c, loc) : h[o].name = name}

KEYERROR == -1

\* the descent of __getitem__ and __delitem__: the places it can end in,
\* KEYERROR where the for/else raises
RECURSIVE Descend(_, _, _, _)
Descend(h, c, loc, names) ==
    IF names = <<>> THEN {loc}
    ELSE LET found == FoldersNamed(h, c, loc, Head(names))
         IN  IF found = {} THEN {KEYERROR}
             ELSE UNION {Descend(h, c, o, Tail(names)) : o \in found}

\* the descent of __setitem__, which creates the folders it does not find
RECURSIVE DescendCreate(_, _, _, _)
DescendCreate(h, c, loc, names) ==
    IF names = <<>> THEN {[h |-> h, c |-> c, loc |-> loc]}
    ELSE LET found == FoldersNamed(h, c, loc, Head(names))
         IN  IF found # {}
             THEN UNION {DescendCreate(h, c, o, Tail(names)) : o \in found}
             ELSE LET id == NewId(h)
                      h1 == Alloc(h, Folder(Head(names)))
                      st == SetAdd(h1, c, loc, id)
                  IN  DescendCreate(st.h, st.c, id, Tail(names))

\* __getitem__: folderStructure[:-1] is descended, the last segment looked up
GetSegments(fs) == Front(fs)

GetItemOutcomes(h, c, key) ==
    LET fs == FolderStructure(key)
    IN  UNION {IF loc = KEYERROR THEN {[status |-> "KeyError", ret |-> 0]}
               ELSE LET hit == EntriesNamed(h, c, loc, Last(fs))
                    IN  IF hit = {} THEN {[status |-> "KeyError", ret |-> 0]}
                        ELSE {[status |-> "ok", ret |-> o] : o \in hit}
               : loc \in Descend(h, c, ROOT, GetSegments(fs))}

\* __setitem__: folderStructure[1:] is descended, and the entries of the
\* last place are compared with the whole key
SetSegments(fs) == Tail(fs)
SetMatchName(key, fs) == key

\* val is the id of the value, already constructed by the caller.  Removing
\* from the set inside the loop over it makes the loop's next step raise
\* RuntimeError (Set changed size during iteration), before val is added.
SetItemOutcomes(h, c, key, val) ==
    LET fs == FolderStructure(key)
    IN  UNION {LET hit == EntriesNamed(w.h, w.c, w.loc, SetMatchName(key, fs))
               IN  IF hit = {}
                   THEN {[status |-> "ok"] @@ SetAdd(w.h, w.c, w.loc, val)}
                   ELSE {[status |-> "RuntimeError"]
                             @@ SetRemove(w.h, w.c, w.loc, o) : o \in hit}
               : w \in DescendCreate(h, c, ROOT, SetSegments(fs))}

\* __delitem__: folderStructure[1:] is descended, and the entries of the
\* last place are compared with the whole key
DelSegments(fs) == Tail(fs)
DelMatchName(key, fs) == key

DelItemOutcomes(h, c, key) ==
    LET fs == FolderStructure(key)
    IN  UNION {IF loc = KEYERROR
               THEN {[status |-> "KeyError", h |-> h, c |-> c]}
               ELSE LET hit == EntriesNamed(h, c, loc, DelMatchName(key, fs))
                    IN  IF hit = {}
                        THEN {[status |-> "KeyError", h |-> h, c |-> c]}
                        ELSE {[status |-> "ok"] @@ SetRemove(h, c, loc, o)
                                  : o \in hit}
               : loc \in Descend(h, c, ROOT, DelSegments(fs))}

----------------------------------------------------------------------------
(* Specification of the tree model                                         *)

Keys == {sABC, sX, sAX, sAbsB}
FileNames == {sX}
FolderNames == {sA}

\* the values a caller hands to __setitem__
Values ==
    {File(sEmpty, <<2>>), File(sC, <<2>>), File(sX, <<2>>), Folder(sX), Other}

\* the folders of the archive, and the archive itself
RECURSIVE Reach(_, _, _)
Reach(h, c, n) ==
    IF n = 0 THEN c
    ELSE LET r == Reach(h, c, n - 1)
         IN  r \cup UNION {h[o].contents : o \in r}

Places(h, c) == {ROOT} \cup {o \in Reach(h, c, Len(h)) : isFolder(h, o)}

Snapshot == [heap |-> heap, contents |-> contents]

\* archive[key] = val
SetItem ==
    \E key \in Keys, v \in Values :
        IF v.kind \notin {"File", "Folder"}
        THEN /\ out' = [op |-> "set", key |-> key, val |-> 0,
                        status |-> "TypeError", ret |-> 0, pre |-> Snapshot]
             /\ UNCHANGED <<heap, contents, endianness, hashMultiplier,
                            FileClassName, buf, hcall>>
        ELSE /\ Len(heap) + Len(FolderStructure(key)) <= MaxObj
             /\ LET val == NewId(heap)
                    h0  == Alloc(heap, v)
                IN  \E r \in SetItemOutcomes(h0, contents, key, val) :
                        /\ heap' = r.h
                        /\ contents' = r.c
                        /\ out' = [op |-> "set", key |-> key, val |-> val,
                                   status |-> r.status, ret |-> 0,
                                   pre |-> [heap |-> h0,
                                            contents |-> contents]]
             /\ FileClassName' = Last(FolderStructure(key))
             /\ UNCHANGED <<endianness, hashMultiplier, buf, hcall>>

\* archive[key]
GetItem ==
    \E key \in Keys :
        \E r \in GetItemOutcomes(heap, contents, key) :
            /\ out' = [op |-> "get", key |-> key, val |-> 0,
                       status |-> r.status, ret |-> r.ret, pre |-> <<>>]
            /\ UNCHANGED <<heap, contents, endianness, hashMultiplier,
                           FileClassName, buf, hcall>>

\* del archive[key]
DelItem ==
    \E key \in Keys :
        \E r \in DelItemOutcomes(heap, contents, key) :
            /\ heap' = r.h
            /\ contents' = r.c
            /\ out' = [op |-> "del", key |-> key, val |-> 0,
                       status |-> r.status, ret |-> 0, pre |-> Snapshot]
            /\ UNCHANGED <<endianness, hashMultiplier, FileClassName, buf,
                           hcall>>

\* place.addFile(File(name, data)), on the archive or on a folder of it
AddFile ==
    \E loc \in Places(heap, contents), n \in FileNames, d \in {<<1>>} :
        /\ Len(heap) < MaxObj
        /\ LET id == NewId(heap)
               r  == SetAdd(Alloc(heap, File(n, d)), contents, loc, id)
           IN  /\ heap' = r.h
               /\ contents' = r.c
               /\ out' = [op |-> "addFile", key |-> n, val |-> id,
                          status |-> "ok", ret |-> 0, pre |-> Snapshot]
        /\ UNCHANGED <<endianness, hashMultiplier, FileClassName, buf,
                       hcall>>

\* place.addFolder(Folder(name))
AddFolder ==
    \E loc \in Places(heap, contents), n \in FolderNames :
        /\ Len(heap) < MaxObj
        /\ LET id == NewId(heap)
               r  == SetAdd(Alloc(heap, Folder(n)), contents, loc, id)
           IN  /\ heap' = r.h
               /\ contents' = r.c
               /\ out' = [op |-> "addFolder", key |-> n, val |-> id,
                          status |-> "ok", ret |-> 0, pre |-> Snapshot]
        /\ UNCHANGED <<endianness, hashMultiplier, FileClassName, buf,
                       hcall>>

InitTree ==
    /\ Constructed(BE, DefaultMultiplier)
    /\ hcall = NoCall

NextTree == SetItem \/ GetItem \/ DelItem \/ AddFile \/ AddFolder

SpecTree == InitTree /\ [][NextTree]_vars

----------------------------------------------------------------------------
(* SARC_Archive.save                                                       *)

\* a | b and a & b of Python, for b >= 0 and a >= -1
RECURSIVE BitOr(_, _)
BitOr(a, b) ==
    IF a = -1 THEN -1
    ELSE IF a = 0 THEN b
    ELSE IF b = 0 THEN a
    ELSE 2 * BitOr(a \div 2, b \div 2) + (IF a % 2 = 1 \/ b % 2 = 1 THEN 1 ELSE 0)

RECURSIVE BitAnd(_, _)
BitAnd(a, b) ==
    IF a = 0 \/ b = 0 THEN 0
    ELSE 2 * BitAnd(a \div 2, b \div 2) + (IF a % 2 = 1 /\ b % 2 = 1 THEN 1 ELSE 0)

RECURSIVE Pow2(_)
Pow2(n) == IF n = 0 THEN 1 ELSE 2 * Pow2(n - 1)

\* def round_up(x, y): return ((x - 1) | (y - 1)) + 1
round_up(x, y) == BitOr(x - 1, y - 1) + 1

\* the orders a for loop can visit a set in
Orders(S) ==
    {f \in [1..Cardinality(S) -> S] :
        \A i, j \in 1..Cardinality(S) : i # j => f[i] # f[j]}

\* markers for a raised IndexError: as a path, and as a flattened list
PATHERROR == <<-1>>
INDEXERROR == << <<PATHERROR, 0>> >>

\* the path addToFlatList works with: backslashes become slashes and a
\* trailing slash is added; path[-1] of an empty path raises IndexError
FlatPath(path) ==
    LET p == IF \E i \in 1..Len(path) : path[i] = BACKSLASH
             THEN Join(Split(path, BACKSLASH), SLASH) ELSE path
    IN  IF p = <<>> THEN PATHERROR
        ELSE IF Last(p) # SLASH THEN p \o <<SLASH>> ELSE p

\* the lists of (path, file id) addToFlatList(folder, path) can append, one
\* per order of iteration; {INDEXERROR} when it raises
RECURSIVE addToFlatList(_, _, _), FlatOfOrder(_, _, _)
addToFlatList(h, folder, path) ==
    LET p == FlatPath(path)
    IN  IF p = PATHERROR THEN {INDEXERROR}
        ELSE LET all == UNION {FlatOfOrder(h, ord, p)
                                  : ord \in Orders(h[folder].contents)}
             IN  IF INDEXERROR \in all THEN {INDEXERROR} ELSE all

FlatOfOrder(h, ord, p) ==
    IF ord = <<>> THEN {<<>>}
    ELSE LET o    == Head(ord)
             here == IF isFile(h, o) THEN {<< <<p \o h[o].name, o>> >>}
                     ELSE addToFlatList(h, o, p \o h[o].name)
             rest == FlatOfOrder(h, Tail(ord), p)
         IN  IF INDEXERROR \in here \/ INDEXERROR \in rest
             THEN {INDEXERROR}
             ELSE {x \o y : x \in here, y \in rest}

\* the top-level loop of save over self.contents: no path prefix
RECURSIVE FlatOfRootOrder(_, _)
FlatOfRootOrder(h, ord) ==
    IF ord = <<>> THEN {<<>>}
    ELSE LET o    == Head(ord)
             here == IF isFile(h, o) THEN {<< <<h[o].name, o>> >>}
                     ELSE addToFlatList(h, o, h[o].name)
             rest == FlatOfRootOrder(h, Tail(ord))
         IN  IF INDEXERROR \in here \/ INDEXERROR \in rest
             THEN {INDEXERROR}
             ELSE {x \o y : x \in here, y \in rest}

FlatLists(h, c) ==
    LET all == UNION {FlatOfRootOrder(h, ord) : ord \in Orders(c)}
    IN  IF INDEXERROR \in all THEN {INDEXERROR} ELSE all

\* the sort key: the packed hash of the path, unpacked again
SortKey_BigEndian(path, e, multiplier) ==
    UnpackI(BE, filenameHash(path, e, multiplier))

SortKey(path, e, multiplier) ==
    UnpackI(e, filenameHash(path, e, multiplier))

\* list.sort(key=...): stable, ascending
RECURSIVE SortInsert(_, _, _, _)
SortInsert(sorted, x, e, multiplier) ==
    IF sorted = <<>> THEN <<x>>
    ELSE IF BigLess(SortKey(x[1], e, multiplier),
                    SortKey(Head(sorted)[1], e, multiplier))
    THEN <<x>> \o sorted
    ELSE <<Head(sorted)>> \o SortInsert(Tail(sorted), x, e, multiplier)

RECURSIVE SortFlat(_, _, _)
SortFlat(flat, e, multiplier) ==
    IF flat = <<>> THEN <<>>
    ELSE SortInsert(SortFlat(Front(flat), e, multiplier), Last(flat),
                    e, multiplier)

\* the file names table and the offset of each name in it
RECURSIVE NamesTable(_, _)
NamesTable(flat, acc) ==
    IF flat = <<>> THEN acc
    ELSE LET t1 == acc.table \o Utf8Encode(Head(flat)[1])
             t2 == t1 \o Zeros(4 - (Len(t1) % 4))
         IN  NamesTable(Tail(flat),
                        [table |-> t2,
                         offsets |-> Append(acc.offsets, Len(acc.table))])

\* the beginning-of-data offset: the larger of the minimum and the request
\* rounded to 0x10, rounded to 0x200 when it is the minimum
DataStartMinimum(nFiles, namesLen) ==
    round_up(32 + 16 * nFiles + 8 + namesLen, 16)

DataStart(minimum, requested) ==
    LET d == Max(minimum, round_up(requested, 16))
    IN  IF d = minimum THEN round_up(d, 512) ELSE d

\* alignment = dataStartOffset & 0xF0, then & (0xF0 << numZeros) while 0
RECURSIVE AlignLoop(_, _, _)
AlignLoop(dataStartOffset, alignment, numZeros) ==
    IF alignment # 0 THEN alignment
    ELSE AlignLoop(dataStartOffset,
                   BitAnd(dataStartOffset, 240 * Pow2(numZeros)),
                   numZeros + 1)

Alignment(dataStartOffset) ==
    AlignLoop(dataStartOffset, BitAnd(dataStartOffset, 240), 1)

DataPad(idx, len, alignment) ==
    IF idx > 0 THEN round_up(len, alignment) - len ELSE 0

\* the file data table and the offset of each file in it
RECURSIVE DataTable(_, _, _, _, _)
DataTable(h, flat, idx, alignment, acc) ==
    IF idx = Len(flat) THEN acc
    ELSE LET t1 == acc.table
                       \o Zeros(DataPad(idx, Len(acc.table), alignment))
         IN  DataTable(h, flat, idx + 1, alignment,
                       [table |-> t1 \o h[flat[idx + 1][2]].data,
                        offsets |-> Append(acc.offsets, Len(t1))])

\* totalFileLen = dataStartOffset + len(fileDataTable)
TotalFileLen_NoData(dataStartOffset, fileDataTable) == dataStartOffset

TotalFileLen(dataStartOffset, fileDataTable) ==
    dataStartOffset + Len(fileDataTable)

SarcHead(e, totalFileLen, dataStartOffset) ==
    <<83, 65, 82, 67>>                       \* b'SARC'
        \o PackH(e, 20)                      \* 0x14
        \o (IF e = BE THEN <<254, 255>> ELSE <<255, 254>>)
        \o PackI(e, BigOfNat(totalFileLen))
        \o PackI(e, BigOfNat(dataStartOffset))
        \o (IF e = BE THEN <<1, 0, 0, 0>> ELSE <<0, 1, 0, 0>>)

SfatHead(e, nFiles, multiplier) ==
    <<83, 70, 65, 84>>                       \* b'SFAT'
        \o PackH(e, 12)                      \* 0x0C
        \o PackH(e, nFiles)
        \o PackI(e, multiplier)

\* one SFAT node; 16777216 is 0x1000000
SfatNode(h, e, multiplier, filepath, file, filenameoffset, filedataoffset) ==
    filenameHash(filepath, e, multiplier)
        \o PackI(e, BigOfNat(BitOr(filenameoffset \div 4, 16777216)))
        \o PackI(e, BigOfNat(filedataoffset))
        \o PackI(e, BigOfNat(filedataoffset + Len(h[file].data)))

SfntHead(e) ==
    <<83, 70, 78, 84>>                       \* b'SFNT'
        \o (IF e = BE THEN <<0, 8>> ELSE <<8, 0>>)
        \o <<0, 0>>

\* what save(dataStartOffset) returns for one flattened and sorted list
SaveOf(h, e, multiplier, requested, flat) ==
    LET names  == NamesTable(flat, [table |-> <<>>, offsets |-> <<>>])
        start  == DataStart(DataStartMinimum(Len(flat), Len(names.table)),
                            requested)
        align  == Alignment(start)
        datas  == DataTable(h, flat, 0, align,
                            [table |-> <<>>, offsets |-> <<>>])
        total  == TotalFileLen(start, datas.table)
        sarc   == SarcHead(e, total, start)
        sfatH  == SfatHead(e, Len(flat), multiplier)
        sfat   == Concat([i \in 1..Len(flat) |->
                            SfatNode(h, e, multiplier, flat[i][1], flat[i][2],
                                     names.offsets[i], datas.offsets[i])])
        sfnt   == SfntHead(e)
        headerSize == Len(sarc) + Len(sfatH) + Len(sfat) + Len(sfnt)
                          + Len(names.table)
        padding == IF start > headerSize THEN Zeros(start - headerSize)
                   ELSE <<>>
    IN  [status |-> "ok",
         data |-> sarc \o sfatH \o sfat \o sfnt \o names.table
                      \o padding \o datas.table,
         flatList |-> flat,
         dataStartOffset |-> start,
         alignment |-> align,
         dataOffsets |-> datas.offsets,
         fileDataTableLen |-> Len(datas.table),
         totalFileLen |-> total]

SaveError ==
    [status |-> "IndexError", data |-> <<>>, flatList |-> <<>>,
     dataStartOffset |-> 0, alignment |-> 0, dataOffsets |-> <<>>,
     fileDataTableLen |-> 0, totalFileLen |-> 0]

SaveOutcomes(h, c, e, multiplier, requested) ==
    LET lists == FlatLists(h, c)
    IN  IF INDEXERROR \in lists THEN {SaveError}
        ELSE {SaveOf(h, e, multiplier, requested, flat) :
                 flat \in {SortFlat(l, e, multiplier) : l \in lists}}

----------------------------------------------------------------------------
(* SARC_Archive._load                                                      *)

\* how _load ends: "return" with an error code (0 for success), or the
\* exception that leaves it; with the values self.endianness and
\* self.hashMultiplier have by then, whether clear() has run, and the
\* (name, data) pairs inserted into the tree
Return(code, e, m) ==
    [status |-> "return", code |-> code, endianness |-> e,
     hashMultiplier |-> m, cleared |-> FALSE, files |-> <<>>]

Raise(exc, e, m) ==
    [status |-> exc, code |-> 0, endianness |-> e,
     hashMultiplier |-> m, cleared |-> FALSE, files |-> <<>>]

\* struct.unpack needs a buffer of exactly the size of its format
CanUnpack(bs, size) == Len(bs) = size

\* bytes_to_string(data, offset): up to the first null byte at or after
\* offset, or to the end of the data; <<-1>> when the bytes are not UTF-8
DECODEERROR == <<-1>>

bytes_to_string(data, offset) ==
    LET from  == (offset + 1)..Len(data)
        end   == IF \A i \in from : data[i] # 0 THEN Len(data)
                 ELSE (CHOOSE i \in from :
                          data[i] = 0 /\ \A j \in (offset + 1)..(i - 1) :
                                             data[j] # 0) - 1
        raw   == PySlice(data, offset, end)
    IN  IF Utf8Valid(raw) THEN Utf8Decode(raw) ELSE DECODEERROR

\* one SFAT node at SFATNodeOffset: the tuple appended to SFATNodes, or the
\* exception raised while reading it
SfatNodeAt(data, e, SFATNodeOffset) ==
    LET unkFlagOffset == SFATNodeOffset + (IF e = BE THEN 4 ELSE 7)
        entryOffsetOffset == SFATNodeOffset + (IF e = BE THEN 5 ELSE 4)
        raw3  == PySlice(data, entryOffsetOffset, entryOffsetOffset + 3)
        raw4  == IF e = BE THEN <<0>> \o raw3 ELSE raw3 \o <<0>>
        startB == PySlice(data, SFATNodeOffset + 8, SFATNodeOffset + 12)
        endB   == PySlice(data, SFATNodeOffset + 12, SFATNodeOffset + 16)
    IN  IF unkFlagOffset >= Len(data) THEN [exc |-> "IndexError"]
        ELSE IF ~CanUnpack(raw4, 4) THEN [exc |-> "struct.error"]
        ELSE IF ~CanUnpack(startB, 4) THEN [exc |-> "struct.error"]
        ELSE IF ~CanUnpack(endB, 4) THEN [exc |-> "struct.error"]
        ELSE [exc |-> "",
              unkFlag |-> data[unkFlagOffset + 1],
              fileNameTableEntryOffset |->
                  UnpackI(e, raw4)[1] * B16 + UnpackI(e, raw4)[2],
              fileDataStart |-> UnpackI(e, startB),
              fileDataLength |-> BigSub(UnpackI(e, endB), UnpackI(e, startB))]

\* the loop over range(nodeCount); it stops at the first exception
RECURSIVE SfatNodes(_, _, _, _, _)
SfatNodes(data, e, nodeNum, nodeCount, acc) ==
    IF nodeNum = nodeCount THEN [exc |-> "", nodes |-> acc]
    ELSE LET node == SfatNodeAt(data, e, 32 + 16 * nodeNum)
         IN  IF node.exc # "" THEN [exc |-> node.exc, nodes |-> acc]
             ELSE SfatNodes(data, e, nodeNum + 1, nodeCount,
                            Append(acc, node))

\* the loop that fills the tree, after clear(): the (name, data) pairs it
\* inserts, and the exception that ends it, if any
RECURSIVE LoadFiles(_, _, _, _, _)
LoadFiles(data, dataStartOffset, offset, nodes, acc) ==
    IF nodes = <<>> THEN [exc |-> "", files |-> acc]
    ELSE LET node == Head(nodes)
             nameOffset == offset + node.fileNameTableEntryOffset * 4
             name  == bytes_to_string(data, nameOffset)
             first == BigAdd(dataStartOffset, node.fileDataStart)
             fileData ==
                 PySlice(data, ClampIdx(first, Len(data)),
                         ClampIdx(BigAdd(first, node.fileDataLength),
                                  Len(data)))
         IN  IF name = DECODEERROR
             THEN [exc |-> "UnicodeDecodeError", files |-> acc]
             ELSE LoadFiles(data, dataStartOffset, offset, Tail(nodes),
                            Append(acc, <<name, fileData>>))

\* the SFNT header and what follows it
LoadSfnt(data, e, m, dataStartOffset, nodeCount, nodes) ==
    LET offset == 32 + 16 * nodeCount
        lenB   == PySlice(data, offset + 4, offset + 6)
    IN  IF PySlice(data, offset, offset + 4) # <<83, 70, 78, 84>>
        THEN Return(7, e, m)
        ELSE IF ~CanUnpack(lenB, 2) THEN Raise("struct.error", e, m)
        ELSE IF UnpackH(e, lenB) # 8 THEN Return(8, e, m)
        ELSE LET r == LoadFiles(data, dataStartOffset, offset + 8, nodes,
                                <<>>)
             IN  [status |-> IF r.exc = "" THEN "return" ELSE r.exc,
                  code |-> 0, endianness |-> e, hashMultiplier |-> m,
                  cleared |-> TRUE, files |-> r.files]

\* the SFAT header and the SFAT nodes
LoadSfat(data, e, m0, dataStartOffset) ==
    LET lenB   == PySlice(data, 24, 26)
        countB == PySlice(data, 26, 28)
        multB  == PySlice(data, 28, 32)
    IN  IF PySlice(data, 20, 24) # <<83, 70, 65, 84>> THEN Return(5, e, m0)
        ELSE IF ~CanUnpack(lenB, 2) THEN Raise("struct.error", e, m0)
        ELSE IF UnpackH(e, lenB) # 12 THEN Return(6, e, m0)
        ELSE IF ~CanUnpack(countB, 2) THEN Raise("struct.error", e, m0)
        ELSE IF ~CanUnpack(multB, 4) THEN Raise("struct.error", e, m0)
        ELSE LET nodeCount == UnpackH(e, countB)
                 m == UnpackI(e, multB)
                 r == SfatNodes(data, e, 0, nodeCount, <<>>)
             IN  IF r.exc # "" THEN Raise(r.exc, e, m)
                 ELSE LoadSfnt(data, e, m, dataStartOffset, nodeCount,
                               r.nodes)

\* the rest of the SARC header, once the endianness is known
LoadSarc(data, e, m0) ==
    LET lenB   == PySlice(data, 4, 6)
        totalB == PySlice(data, 8, 12)
        startB == PySlice(data, 12, 16)
    IN  IF ~CanUnpack(lenB, 2) THEN Raise("struct.error", e, m0)
        ELSE IF UnpackH(e, lenB) # 20 THEN Return(3, e, m0)
        ELSE IF ~CanUnpack(totalB, 4) THEN Raise("struct.error", e, m0)
        ELSE IF BigOfNat(Len(data)) # UnpackI(e, totalB)
        THEN Return(4, e, m0)
        ELSE IF ~CanUnpack(startB, 4) THEN Raise("struct.error", e, m0)
        ELSE LoadSfat(data, e, m0, UnpackI(e, startB))

\* _load(data) on an archive whose endianness and multiplier are e0 and m0
Load(data, e0, m0) ==
    LET bom == PySlice(data, 6, 8)
    IN  IF PySlice(data, 0, 4) # <<83, 65, 82, 67>> THEN Return(1, e0, m0)
        ELSE IF bom \notin {<<254, 255>>, <<255, 254>>} THEN Return(2, e0, m0)
        ELSE LoadSarc(data, IF bom = <<254, 255>> THEN BE ELSE LE, m0)

\* inserting one loaded file: a bare name is a File of the root; otherwise
\* each folder of the path is found or made, and the File added to the last
LoadInsert(t, name, fileData) ==
    LET fs == Split(name, SLASH)
    IN  IF Len(fs) = 1
        THEN SetAdd(Alloc(t.h, File(name, fileData)), t.c, ROOT, NewId(t.h))
        ELSE LET w == CHOOSE x \in DescendCreate(t.h, t.c, ROOT, Front(fs)) :
                          TRUE
             IN  SetAdd(Alloc(w.h, File(Last(fs), fileData)), w.c, w.loc,
                        NewId(w.h))

RECURSIVE LoadTree(_, _)
LoadTree(t, files) ==
    IF files = <<>> THEN t
    ELSE LoadTree(LoadInsert(t, Head(files)[1], Head(files)[2]), Tail(files))

\* load(data) on the archive (h, c, e0, m0): the archive afterwards, and
\* how the call ended ("ok", ValueError with _load's code, or the exception
\* that escaped _load).  Once clear() has run, the objects of the old tree
\* are garbage and the heap holds the new tree only.
LoadResult(h, c, r, t) ==
    [status |-> IF r.status # "return" THEN r.status
                ELSE IF r.code # 0 THEN "ValueError" ELSE "ok",
     code |-> r.code,
     h |-> t.h, c |-> t.c,
     endianness |-> r.endianness,
     hashMultiplier |-> r.hashMultiplier]

\* the tree reset before the checks instead of after them
LoadCleared_AtStart(h, c, r) ==
    LoadResult(h, c, r,
               IF r.cleared
               THEN LoadTree([h |-> EmptyHeap, c |-> {}], r.files)
               ELSE [h |-> EmptyHeap, c |-> {}])

LoadCleared(h, c, r) ==
    LoadResult(h, c, r,
               IF r.cleared
               THEN LoadTree([h |-> EmptyHeap, c |-> {}], r.files)
               ELSE [h |-> h, c |-> c])

LoadApply(h, c, e0, m0, data) == LoadCleared(h, c, Load(data, e0, m0))

\* the files of a tree: their slash-delimited paths and their payloads
RECURSIVE PathsUnder(_, _, _)
PathsUnder(h, ids, prefix) ==
    UNION {IF isFile(h, o) THEN {<<prefix \o h[o].name, h[o].data>>}
           ELSE PathsUnder(h, h[o].contents, prefix \o h[o].name \o <<SLASH>>)
           : o \in ids}

FilePaths(h, c) == PathsUnder(h, c, <<>>)

----------------------------------------------------------------------------
(* C3, C4, C5: path semantics                                              *)

\* the place a path addresses: its non-final segments, descended from the
\* archive as get resolves them
AddressedPlaces(h, c, key) == Descend(h, c, ROOT, Front(FolderStructure(key)))

\* C3: on an empty archive, set("a/b/c", file) creates folder a in the root
\* and folder b inside a and inserts the file inside b under the name c (the
\* name is assigned when the file had none); get("a/b/c") on the result
\* returns that same file.
Claim_C3_SetThenGet ==
    (/\ out.op = "set" /\ out.key = sABC /\ out.val # 0
     /\ out.pre.contents = {}
     /\ out.pre.heap[out.val].kind = "File"
     /\ out.pre.heap[out.val].name \in {sEmpty, sC})
    =>  /\ out.status = "ok"
        /\ \E a \in contents :
               /\ isFolder(heap, a) /\ heap[a].name = sA
               /\ \E b \in heap[a].contents :
                      /\ isFolder(heap, b) /\ heap[b].name = sB
                      /\ out.val \in heap[b].contents
        /\ heap[out.val].name = sC
        /\ GetItemOutcomes(heap, contents, sABC)
               = {[status |-> "ok", ret |-> out.val]}

\* C4: when the place a path addresses already holds an entry named by the
\* final segment, set(path, value) with a File or Folder completes without
\* error, and afterwards the place holds the value and not the old entry.
Claim_C4_SetReplaces ==
    (out.op = "set" /\ out.val # 0) =>
        \A loc \in AddressedPlaces(out.pre.heap, out.pre.contents, out.key) :
            LET old == IF loc = KEYERROR THEN {}
                       ELSE EntriesNamed(out.pre.heap, out.pre.contents, loc,
                                         Last(FolderStructure(out.key)))
            IN  old # {} =>
                    /\ out.status = "ok"
                    /\ out.val \in ContentsOf(heap, contents, loc)
                    /\ old \cap ContentsOf(heap, contents, loc) = {}

\* the archive states set("a/b/c", file) leaves an empty archive in
AfterSetOnEmpty ==
    UNION {{[heap |-> r.h, contents |-> r.c] :
               r \in SetItemOutcomes(Alloc(EmptyHeap, v), {}, sABC, 1)}
           : v \in {x \in Values : x.kind = "File"}}

\* C5: delete("a/b/c") after set("a/b/c", file) on an empty archive removes
\* the file and leaves folders a and a/b in place, a/b empty; delete of a
\* path with an unresolvable segment fails with the not-found kind.
Claim_C5_DeleteKeepsFolders ==
    /\ (out.op = "del" /\ out.key = sABC /\ out.pre \in AfterSetOnEmpty)
       =>  /\ out.status = "ok"
           /\ \E a \in contents :
                  /\ isFolder(heap, a) /\ heap[a].name = sA
                  /\ \E b \in heap[a].contents :
                         /\ isFolder(heap, b) /\ heap[b].name = sB
                         /\ heap[b].contents = {}
    /\ (/\ out.op = "del"
        /\ \A g \in GetItemOutcomes(out.pre.heap, out.pre.contents, out.key) :
               g.status = "KeyError")
       =>  out.status = "KeyError"

----------------------------------------------------------------------------
(* Specification of the codec: a caller builds a tree, saves it, loads it  *)

MaxCodecObj == 3
MaxPayload == 17

CodecFileNames == {sA, sB}
CodecFolderNames == {sEmpty, <<100>>}
CodecDatas == {<<>>, [i \in 1..MaxPayload |-> 120]}
\* 0x65 and 0x05000000
CodecMultipliers == {<<0, 101>>, <<1280, 0>>}

\* the data start offsets a caller asks for: 0 and 0x70
DataStartRequests == {0, 112}

\* the caller fills the places in the order it created them: every tree
\* can be built that way, and no tree is built twice with its ids permuted
BuildPlaces ==
    {loc \in Places(heap, contents) :
        out.op \in {"addFile", "addFolder"} => loc >= out.loc}

\* place.addFile(File(name, data)) while the tree is being built
PutFile ==
    /\ buf = <<>>
    /\ Len(heap) < MaxCodecObj
    /\ \E loc \in BuildPlaces, n \in CodecFileNames, d \in CodecDatas :
        /\ LET id == NewId(heap)
               r  == SetAdd(Alloc(heap, File(n, d)), contents, loc, id)
           IN  /\ heap' = r.h
               /\ contents' = r.c
               /\ out' = [op |-> "addFile", key |-> n, val |-> id,
                          status |-> "ok", ret |-> 0, pre |-> <<>>,
                          loc |-> loc]
        /\ UNCHANGED <<endianness, hashMultiplier, FileClassName, buf,
                       hcall>>

\* place.addFolder(Folder(name)) while the tree is being built
PutFolder ==
    /\ buf = <<>>
    /\ Len(heap) < MaxCodecObj
    /\ \E loc \in BuildPlaces, n \in CodecFolderNames :
        /\ LET id == NewId(heap)
               r  == SetAdd(Alloc(heap, Folder(n)), contents, loc, id)
           IN  /\ heap' = r.h
               /\ contents' = r.c
               /\ out' = [op |-> "addFolder", key |-> n, val |-> id,
                          status |-> "ok", ret |-> 0, pre |-> <<>>,
                          loc |-> loc]
        /\ UNCHANGED <<endianness, hashMultiplier, FileClassName, buf,
                       hcall>>

\* buf = archive.save(dataStartOffset)
Save ==
    /\ out.op \notin {"save", "tamper", "load"}
    /\ \E requested \in DataStartRequests :
        \E r \in SaveOutcomes(heap, contents, endianness, hashMultiplier,
                              requested) :
            /\ out' = [op |-> "save", status |-> r.status,
                       requested |-> requested,
                       res |-> [r EXCEPT !.data = <<>>]]
            /\ buf' = IF r.status = "ok" THEN r.data ELSE buf
            /\ UNCHANGED <<heap, contents, endianness, hashMultiplier,
                           FileClassName, hcall>>

\* archive.load(buf)
LoadBuf ==
    /\ out.op \in {"save", "tamper"}
    /\ out.status = "ok"
    /\ \E r \in {LoadApply(heap, contents, endianness, hashMultiplier, buf)} :
           /\ heap' = r.h
           /\ contents' = r.c
           /\ endianness' = r.endianness
           /\ hashMultiplier' = r.hashMultiplier
           /\ out' = [op |-> "load", status |-> r.status, code |-> r.code,
                      pre |-> [heap |-> heap, contents |-> contents,
                               endianness |-> endianness,
                               hashMultiplier |-> hashMultiplier],
                      saved |-> out.op = "save" /\ out.status = "ok"]
    /\ UNCHANGED <<FileClassName, buf, hcall>>

InitCodec ==
    /\ \E e \in Endians, m \in CodecMultipliers : Constructed(e, m)
    /\ hcall = NoCall

NextCodec == PutFile \/ PutFolder \/ Save \/ LoadBuf

SpecCodec == InitCodec /\ [][NextCodec]_vars

----------------------------------------------------------------------------
(* Specification of the decoder: a saved buffer is damaged on its way to   *)
(* load                                                                    *)

MaxTamperLen == 128
MaxTruncLen == 64
MaxTamperPos == 63

TamperValues == {0, 128}

\* data cut to len bytes, its total-length field set to len when fix holds,
\* then the byte at pos replaced by val
Tampered(data, e, len, fix, pos, val) ==
    LET cut   == PySlice(data, 0, len)
        fixed == IF fix /\ Len(cut) >= 12
                 THEN SubSeq(cut, 1, 8) \o PackI(e, BigOfNat(Len(cut)))
                          \o SubSeq(cut, 13, Len(cut))
                 ELSE cut
    IN  IF pos < Len(fixed) THEN [fixed EXCEPT ![pos + 1] = val] ELSE fixed

Tamper ==
    /\ out.op = "save" /\ out.status = "ok"
    /\ Len(buf) <= MaxTamperLen
    /\ \E len \in (0..MaxTruncLen) \cup {Len(buf)}, fix \in BOOLEAN,
          pos \in 0..MaxTamperPos, val \in TamperValues :
        /\ buf' = Tampered(buf, endianness, len, fix, pos, val)
        /\ out' = [op |-> "tamper", status |-> "ok"]
        /\ UNCHANGED <<heap, contents, endianness, hashMultiplier,
                       FileClassName, hcall>>

\* an archive holding the file d/a, as addFolder and addFile build it
InitDecode ==
    /\ heap = <<[Folder(<<100>>) EXCEPT !.contents = {2}], File(sA, <<7>>)>>
    /\ contents = {1}
    /\ endianness \in Endians
    /\ hashMultiplier = DefaultMultiplier
    /\ FileClassName = <<>>
    /\ buf = <<>>
    /\ out = NoOut
    /\ hcall = NoCall

NextDecode == Save \/ Tamper \/ LoadBuf

SpecDecode == InitDecode /\ [][NextDecode]_vars

----------------------------------------------------------------------------
(* Specification of filenameHash alone                                     *)

MaxHashLen == 2

HashChars == {97, 98, SLASH}

HashNames ==
    SeqsUpTo(HashChars, MaxHashLen)
        \cup {<<97, SLASH, 98>>, <<98, SLASH, 97>>, <<97, 97, 97>>,
              <<97, 98, 99, 100, 101, 102>>}

Multipliers == {<<0, 101>>, <<0, 0>>, <<0, 1>>, <<65535, 65535>>, <<1, 1>>}

InitHash ==
    /\ Constructed(BE, DefaultMultiplier)
    /\ hcall \in {[pc |-> "call", filename |-> n, endianness |-> e,
                   multiplier |-> m, ret |-> <<>>] :
                     n \in HashNames, e \in Endians, m \in Multipliers}

HashCall ==
    /\ hcall.pc = "call"
    /\ hcall' = [hcall EXCEPT
                   !.pc = "done",
                   !.ret = filenameHash(hcall.filename, hcall.endianness,
                                        hcall.multiplier)]
    /\ UNCHANGED <<heap, contents, endianness, hashMultiplier, FileClassName,
                   buf, out>>

NextHash == HashCall

SpecHash == InitHash /\ [][NextHash]_vars

----------------------------------------------------------------------------
(* C9: the hash function                                                   *)

\* The fold of the specification, (result * multiplier + code point) mod
\* 2^32, on four base-256 digits, least significant first.
RefDigits(v) == <<v[2] % 256, v[2] \div 256, v[1] % 256, v[1] \div 256>>

RefMulAdd(r, m, c) ==
    LET t1 == r[1] * m[1] + c
        t2 == r[1] * m[2] + r[2] * m[1] + (t1 \div 256)
        t3 == r[1] * m[3] + r[2] * m[2] + r[3] * m[1] + (t2 \div 256)
        t4 == r[1] * m[4] + r[2] * m[3] + r[3] * m[2] + r[4] * m[1]
                  + (t3 \div 256)
    IN  <<t1 % 256, t2 % 256, t3 % 256, t4 % 256>>

RECURSIVE RefFold(_, _, _)
RefFold(r, name, m) ==
    IF name = <<>> THEN r
    ELSE RefFold(RefMulAdd(r, m, Head(name)), Tail(name), m)

RefHash(name, multiplier) ==
    LET d == RefFold(<<0, 0, 0, 0>>, name, RefDigits(multiplier))
    IN  <<d[4] * 256 + d[3], d[2] * 256 + d[1]>>

\* <<name, multiplier, hash>> as SARC.py computes them
HashTable == {
    <<<<>>, <<0, 101>>, <<0, 0>>>>,
    <<<<>>, <<65535, 65535>>, <<0, 0>>>>,
    <<<<97>>, <<0, 101>>, <<0, 97>>>>,
    <<<<97>>, <<0, 0>>, <<0, 97>>>>,
    <<<<97>>, <<65535, 65535>>, <<0, 97>>>>,
    <<<<97, 98>>, <<0, 101>>, <<0, 9895>>>>,
    <<<<97, 98>>, <<0, 0>>, <<0, 98>>>>,
    <<<<97, 98>>, <<0, 1>>, <<0, 195>>>>,
    <<<<97, 98>>, <<65535, 65535>>, <<0, 1>>>>,
    <<<<97, 98>>, <<1, 1>>, <<97, 195>>>>,
    <<<<97, 47, 98>>, <<0, 101>>, <<15, 11302>>>>,
    <<<<97, 47, 98>>, <<65535, 65535>>, <<0, 148>>>>,
    <<<<97, 47, 98>>, <<1, 1>>, <<241, 242>>>>,
    <<<<97, 98, 99, 100, 101, 102>>, <<0, 101>>, <<50102, 29681>>>>,
    <<<<97, 98, 99, 100, 101, 102>>, <<0, 0>>, <<0, 102>>>>,
    <<<<97, 98, 99, 100, 101, 102>>, <<0, 1>>, <<0, 597>>>>,
    <<<<97, 98, 99, 100, 101, 102>>, <<65535, 65535>>, <<0, 3>>>>,
    <<<<97, 98, 99, 100, 101, 102>>, <<1, 1>>, <<1475, 597>>>>,
    <<<<98, 47, 97>>, <<0, 101>>, <<15, 21502>>>>,
    <<<<98, 47, 97>>, <<1, 1>>, <<243, 242>>>>,
    <<<<97, 97, 97>>, <<0, 101>>, <<15, 16351>>>>,
    <<<<97, 97, 97>>, <<65535, 65535>>, <<0, 97>>>>,
    <<<<97, 97, 97>>, <<1, 1>>, <<291, 291>>>>,
    <<<<47, 47>>, <<0, 101>>, <<0, 4794>>>>,
    <<<<47, 47>>, <<65535, 65535>>, <<0, 0>>>>,
    <<<<47, 47>>, <<1, 1>>, <<47, 94>>>> }

\* C9: for every name and 32-bit multiplier, the bytes filenameHash returns,
\* read as an unsigned integer in the endianness they were packed in, are
\* the fold (result * multiplier + code point) mod 2^32 from 0, lie in
\* 0..2^32-1, and match the values SARC.py gives; hash("a", 0x65) = 0x61
\* and the hash of the empty name is 0.
Thm_C9_Hash ==
    hcall.pc = "done" =>
        LET v == UnpackI(hcall.endianness, hcall.ret)
        IN  /\ Len(hcall.ret) = 4
            /\ v[1] \in 0..(B16 - 1) /\ v[2] \in 0..(B16 - 1)
            /\ v = RefHash(hcall.filename, hcall.multiplier)
            /\ \A t \in HashTable :
                   (t[1] = hcall.filename /\ t[2] = hcall.multiplier)
                       => v = t[3]
            /\ hcall.filename = <<>> => v = <<0, 0>>
            /\ (hcall.filename = <<97>> /\ hcall.multiplier = <<0, 101>>)
                   => v = <<0, 97>>

\* a hash that wrapped around 2^32 has been computed, little-endian
Wit_C9_Hash ==
    /\ hcall.pc = "done"
    /\ hcall.endianness = LE
    /\ hcall.filename = <<97, 98, 99, 100, 101, 102>>
    /\ hcall.multiplier = <<0, 101>>
    /\ hcall.ret = <<241, 115, 182, 195>>

----------------------------------------------------------------------------
(* C1, C6, C7, C8: the encoder, and the decoder on what it wrote           *)

\* no place of the tree holds two entries of the same name
UniqueNames(h, c) ==
    \A loc \in Places(h, c) :
        \A x, y \in ContentsOf(h, c, loc) : h[x].name = h[y].name => x = y

\* every folder of the tree has a name
FoldersNamedAll(h, c) ==
    \A o \in Places(h, c) : o # ROOT => h[o].name # <<>>

\* C1: for a tree with no two entries of one name in a folder, and either
\* endianness, save returns a buffer, and loading that buffer gives a tree
\* with the same file paths, each with the same payload.
Claim_C1_RoundTrip ==
    /\ (out.op = "save" /\ UniqueNames(heap, contents)) => out.status = "ok"
    /\ (/\ out.op = "load" /\ out.saved
        /\ UniqueNames(out.pre.heap, out.pre.contents))
       =>  /\ out.status = "ok"
           /\ FilePaths(heap, contents)
                  = FilePaths(out.pre.heap, out.pre.contents)

\* the same, for the trees whose folders all have a non-empty name
RoundTrip_NamedFolders ==
    /\ (/\ out.op = "save" /\ UniqueNames(heap, contents)
        /\ FoldersNamedAll(heap, contents))
       => out.status = "ok"
    /\ (/\ out.op = "load" /\ out.saved
        /\ UniqueNames(out.pre.heap, out.pre.contents)
        /\ FoldersNamedAll(out.pre.heap, out.pre.contents))
       =>  /\ out.status = "ok"
           /\ out.pre.endianness = endianness
           /\ out.pre.hashMultiplier = hashMultiplier
           /\ FilePaths(heap, contents)
                  = FilePaths(out.pre.heap, out.pre.contents)

\* reading a saved buffer back, field by field (offsets are 0-based)
FieldI(data, e, at) == UnpackI(e, SubSeq(data, at + 1, at + 4))
FieldH(data, e, at) == UnpackH(e, SubSeq(data, at + 1, at + 2))
NatOf(v) == v[1] * B16 + v[2]

RecordCount(data, e) == FieldH(data, e, 26)
RecordAt(i) == 32 + 16 * (i - 1)
RecordHash(data, e, i) == FieldI(data, e, RecordAt(i))
RecordNameWord(data, e, i) ==
    LET v == FieldI(data, e, RecordAt(i) + 4) IN (v[1] % 256) * B16 + v[2]
RecordStart(data, e, i) == NatOf(FieldI(data, e, RecordAt(i) + 8))
RecordEnd(data, e, i) == NatOf(FieldI(data, e, RecordAt(i) + 12))

\* the null-terminated name of record i in the name table
RecordName(data, e, i) ==
    LET at == 32 + 16 * RecordCount(data, e) + 8
                  + 4 * RecordNameWord(data, e, i)
        z  == CHOOSE k \in (at + 1)..Len(data) :
                  data[k] = 0 /\ \A j \in (at + 1)..(k - 1) : data[j] # 0
    IN  SubSeq(data, at + 1, z - 1)

Saved == out.op = "save" /\ out.status = "ok"

\* C6: in the buffer save returns, for either endianness and any multiplier,
\* the hashes of the index records, read as unsigned 32-bit integers in the
\* archive's endianness, are non-decreasing, and each record's hash is the
\* hash of the full path its name field points to.
Thm_C6_SortedIndex ==
    Saved =>
        LET n == RecordCount(buf, endianness)
        IN  /\ n = Len(out.res.flatList)
            /\ \A i \in 1..(n - 1) :
                   BigLeq(RecordHash(buf, endianness, i),
                          RecordHash(buf, endianness, i + 1))
            /\ \A i \in 1..n :
                   /\ RecordName(buf, endianness, i) = out.res.flatList[i][1]
                   /\ RecordHash(buf, endianness, i)
                          = RefHash(RecordName(buf, endianness, i),
                                    hashMultiplier)

\* a little-endian archive saved with two records of different hashes, the
\* larger one above 2^31
Wit_C6_SortedIndex ==
    /\ Saved
    /\ endianness = LE
    /\ RecordCount(buf, endianness) >= 2
    /\ RecordHash(buf, endianness, 1) # RecordHash(buf, endianness, 2)
    /\ RecordHash(buf, endianness, 2)[1] >= 32768

\* the largest power of two that divides x, for x > 0
RECURSIVE LargestPow2Divisor(_)
LargestPow2Divisor(x) ==
    IF x % 2 = 1 THEN 1 ELSE 2 * LargestPow2Divisor(x \div 2)

\* C7: the alignment save derives from the effective data start offset is
\* the largest power-of-two divisor of that offset (at least 0x10), and the
\* payload start offset of every entry after the first is a multiple of it.
Claim_C7_Alignment ==
    Saved =>
        /\ out.res.alignment
               = Max(16, LargestPow2Divisor(out.res.dataStartOffset))
        /\ \A i \in 2..RecordCount(buf, endianness) :
               RecordStart(buf, endianness, i) % out.res.alignment = 0

\* what does hold of the payload offsets: they are multiples of the largest
\* power-of-two divisor of the data start offset
PayloadsAlignedToLowBit ==
    Saved =>
        \A i \in 2..RecordCount(buf, endianness) :
            RecordStart(buf, endianness, i)
                % LargestPow2Divisor(out.res.dataStartOffset) = 0

\* C8: the total length save writes is the effective data start offset plus
\* the length of the padded payload table, it is the length of the buffer
\* (headers, records and names end at or before the data start offset), and
\* the decoder accepts the buffer.
Thm_C8_TotalLength ==
    Saved =>
        LET n     == RecordCount(buf, endianness)
            start == NatOf(FieldI(buf, endianness, 12))
            total == FieldI(buf, endianness, 8)
            names == Concat([i \in 1..n |->
                               LET p == out.res.flatList[i][1]
                               IN  p \o Zeros(4 - (Len(p) % 4))])
            table == IF n = 0 THEN 0 ELSE RecordEnd(buf, endianness, n)
        IN  /\ start = out.res.dataStartOffset
            /\ start >= round_up(out.requested, 16)
            /\ 32 + 16 * n + 8 + Len(names) <= start
            /\ table = out.res.fileDataTableLen
            /\ total = BigOfNat(start + table)
            /\ total = BigOfNat(Len(buf))
            /\ \E r \in {Load(buf, endianness, hashMultiplier)} :
                   r.status = "return" /\ r.code = 0

\* a save with the requested data start offset in effect and a padded
\* payload table
Wit_C8_TotalLength ==
    /\ Saved
    /\ out.requested = 112
    /\ out.res.dataStartOffset = 112
    /\ RecordCount(buf, endianness) = 2
    /\ out.res.fileDataTableLen > 2 * MaxPayload
    /\ Len(buf) = 112 + out.res.fileDataTableLen

----------------------------------------------------------------------------
(* C2, C10: the decoder on damaged buffers                                 *)

\* the structural checks of the format, as the specification lists them: the
\* first one a buffer violates, 0 when it violates none.  A field the buffer
\* is too short to hold violates its check.
HasField(data, at, size) == Len(data) >= at + size

BomEndian(data) ==
    IF PySlice(data, 6, 8) = <<254, 255>> THEN BE
    ELSE IF PySlice(data, 6, 8) = <<255, 254>> THEN LE
    ELSE "none"

Violates(data, k) ==
    LET e == BomEndian(data)
        sfnt == 32 + 16 * FieldH(data, e, 26)
    IN  CASE k = 1 -> PySlice(data, 0, 4) # <<83, 65, 82, 67>>
          [] k = 2 -> e = "none"
          [] k = 3 -> ~HasField(data, 4, 2) \/ FieldH(data, e, 4) # 20
          [] k = 4 -> \/ ~HasField(data, 8, 4)
                      \/ FieldI(data, e, 8) # BigOfNat(Len(data))
          [] k = 5 -> PySlice(data, 20, 24) # <<83, 70, 65, 84>>
          [] k = 6 -> ~HasField(data, 24, 2) \/ FieldH(data, e, 24) # 12
          [] k = 7 -> \/ ~HasField(data, 26, 2)
                      \/ PySlice(data, sfnt, sfnt + 4) # <<83, 70, 78, 84>>
          [] k = 8 -> ~HasField(data, sfnt + 4, 2)
                      \/ FieldH(data, e, sfnt + 4) # 8

FirstViolated(data) ==
    IF \A k \in 1..8 : ~Violates(data, k) THEN 0
    ELSE CHOOSE k \in 1..8 :
             Violates(data, k) /\ \A j \in 1..(k - 1) : ~Violates(data, j)

Loaded == out.op = "load"

\* C2: load reports the first violated check, in the order 1..8: a buffer
\* that violates check k and no earlier check fails with kind k.
Claim_C2_ValidationOrder ==
    (Loaded /\ FirstViolated(buf) # 0) =>
        (out.status = "ValueError" /\ out.code = FirstViolated(buf))

\* whenever load does end in a validation code, it is the code of the first
\* violated check
ValidationOrder_WhenReported ==
    (Loaded /\ out.status \in {"ok", "ValueError"}) =>
        out.code = FirstViolated(buf)

\* C10: for every buffer, load succeeds or fails with one of the eight
\* validation codes, and in no other way.
Claim_C10_OnlyValidationFailures ==
    Loaded =>
        \/ out.status = "ok"
        \/ out.status = "ValueError" /\ out.code \in 1..8

----------------------------------------------------------------------------
(* C11: what load does to the tree the archive held                        *)

\* the name that starts at 0-based offset at: up to the first null byte, or
\* to the end of the buffer
NameAt(data, at) ==
    LET zs == {k \in (at + 1)..Len(data) : data[k] = 0}
    IN  SubSeq(data, at + 1,
               IF zs = {} THEN Len(data)
               ELSE (CHOOSE k \in zs : \A j \in zs : k <= j) - 1)

\* the bytes of the buffer from start to end, both counted from the data
\* start offset
PayloadAt(data, dataStart, start, end) ==
    PySlice(data, ClampIdx(BigAdd(dataStart, start), Len(data)),
            ClampIdx(BigAdd(dataStart, end), Len(data)))

\* the entries a buffer describes: for each index record, the name its name
\* offset points to and the payload its start and end offsets delimit
BufferEntries(data, e) ==
    LET n == RecordCount(data, e)
    IN  {<<NameAt(data, 32 + 16 * n + 8 + 4 * RecordNameWord(data, e, i)),
           PayloadAt(data, FieldI(data, e, 12),
                     FieldI(data, e, RecordAt(i) + 8),
                     FieldI(data, e, RecordAt(i) + 12))>> : i \in 1..n}

\* C11: load on an archive that holds entries, with a buffer that fails one
\* of the eight validation checks, leaves the archive's contents exactly as
\* they were; when load succeeds, the contents are exactly the entries of
\* the buffer and none of the earlier ones.
Thm_C11_FailedLoadKeepsTree ==
    Loaded =>
        /\ (FirstViolated(buf) # 0 \/ out.status = "ValueError")
           =>  /\ heap = out.pre.heap
               /\ contents = out.pre.contents
        /\ out.status = "ok"
           =>  /\ FilePaths(heap, contents) = BufferEntries(buf, endianness)
               /\ \A o \in Places(heap, contents) \ {ROOT} :
                      heap[o].kind = "Folder"
                          => PathsUnder(heap, heap[o].contents, <<>>) # {}

\* a load that failed the last check on an archive holding a file in a
\* folder
Wit_C11_FailedLoadKeepsTree ==
    /\ Loaded
    /\ out.status = "ValueError" /\ out.code = 8
    /\ FilePaths(out.pre.heap, out.pre.contents) # {}
    /\ contents # {}

\* a load that succeeded with entries other than the ones the archive held
LoadReplacedTree ==
    /\ Loaded
    /\ out.status = "ok"
    /\ FilePaths(heap, contents) # FilePaths(out.pre.heap, out.pre.contents)
    /\ FilePaths(heap, contents) # {}

====
